---- MODULE Spec2Model ----
(***************************************************************************)
(* The expense tracker: the localStorage persistence adapter               *)
(* (src/lib/storage.ts), the id generator (lib/utils), the expense form    *)
(* (ExpenseForm) and the expenses page (ExpensesPage) that drives them.    *)
(*                                                                         *)
(* Spec      one browser tab; every handler runs to completion; a          *)
(*           localStorage.setItem may throw (quota exceeded).              *)
(* SpecFault Spec plus an environment that makes the storage unreadable    *)
(*           or puts a foreign blob under the storage key.                 *)
(* SpecRace  two tabs on the same storage key; the read and the write of   *)
(*           a storage operation are separate steps, nothing locks them.   *)
(* SpecView  one tab over a stored collection drawn from a bounded set:    *)
(*           the filters are edited, the dashboard summarizes, the         *)
(*           filtered view is exported.                                    *)
(* SpecTabs  two tabs whose handlers run to completion, one at a time.     *)
(* SpecForm  Spec plus submissions that the form must refuse.              *)
(* SpecPage  Spec plus the filter fields and the export.                   *)
(* SpecCsv   exportToCSV alone, called with the lists of a bounded set.    *)
(***************************************************************************)
EXTENDS Integers, Sequences, FiniteSets, TLC

\* ------------------------------------------------------------------ bounds
\* Most records the stored collection is grown to (guard of an add).
MaxLen == 2
\* The same, in the two-tab runs.
MaxRaceLen == 1
\* The day the clock is in.
CurrentDay == 8

\* The values Date.now() takes: milliseconds of the current day.
ClockValues == {1, 2}
\* The values Math.random().toString(36).substr(2, 9) takes.
RandomValues == {1, 2}

Tabs == {1, 2}

\* An optional value (null | T) is a sequence: <<>> for null, <<v>> for v.
Null == <<>>
Some(v) == <<v>>
\* A JS number: NaN, or a value.
NaN == [isNaN |-> TRUE, value |-> 0]
Num(n) == [isNaN |-> FALSE, value |-> n]

\* ------------------------------------------------------------ data model
ExpenseCategories ==
  <<"Food", "Transportation", "Entertainment", "Shopping", "Bills", "Other">>

\* An ISO-8601 instant: <<day, millisecond of the day>> in UTC.
ToISOString(day, ms) == <<day, ms>>
\* isoString.split('T')[0]: the calendar day of an ISO instant.
SplitT(iso) == iso[1]
\* new Date(a) >= new Date(b) on ISO instants.
TimeGeq(a, b) == a[1] > b[1] \/ (a[1] = b[1] /\ a[2] >= b[2])

\* A description is a sequence of one-character strings.
Trim(s) ==
  LET RECURSIVE dropL(_), dropR(_)
      dropL(x) == IF x # <<>> /\ Head(x) = " " THEN dropL(Tail(x)) ELSE x
      dropR(x) == IF x # <<>> /\ x[Len(x)] = " "
                  THEN dropR(SubSeq(x, 1, Len(x) - 1)) ELSE x
  IN dropR(dropL(s))

\* parseFloat on the amount strings of the form.
parseFloat(s) ==
  CASE s = "1" -> Num(1)
    [] s = "2" -> Num(2)
    [] s = "0" -> Num(0)
    [] s = "-1" -> Num(-1)
    [] OTHER -> NaN
\* amount.toString() on the amounts a record can hold.
amountToString(n) ==
  CASE n = 1 -> "1"
    [] n = 2 -> "2"
    [] n = 0 -> "0"
    [] n = -1 -> "-1"
    [] OTHER -> "NaN"

\* --------------------------------------------------------------- variables
VARIABLES
  storage,           \* what localStorage holds under STORAGE_KEY
  denied,            \* localStorage access throws (getItem and setItem)
  now,               \* the clock: Date.now()
  status,            \* per tab: "closed", "ready" or "crashed"
  expenses,          \* per tab: the page's expenses state (a JS value)
  filters,           \* per tab: the page's filters state
  filteredExpenses,  \* per tab: the page's filteredExpenses state
  editingExpense,    \* per tab: the page's editingExpense state
  showForm,          \* per tab: the page's showForm state
  formData,          \* per tab: the mounted form's state, Null when unmounted
  pc,                \* per tab: "idle", or the storage operation in flight
  pending,           \* per tab: newExpenses of the operation in flight
  last,              \* the storage operation of the last step, how it ended
  timezone,          \* the browser's offset from UTC, in hours
  dashboard,         \* the Dashboard: its expenses state, its summary
  csvContent         \* the text the last step exported, Null when it exported none

vars == <<storage, denied, now, status, expenses, filters, filteredExpenses,
          editingExpense, showForm, formData, pc, pending, last,
          timezone, dashboard, csvContent>>

\* What the dashboard and the export add to the state.
view == <<timezone, dashboard, csvContent>>
\* A step of the page that is no export: it exports no text.
noExport == csvContent' = Null /\ UNCHANGED <<timezone, dashboard>>

\* ------------------------------------------------------- JS values, blobs
ListVal(s) == [kind |-> "list", list |-> s]
\* A value that is valid JSON and no array (an object, a number, null).
NonList == [kind |-> "nonlist", list |-> <<>>]

AbsentBlob == [kind |-> "absent", list |-> <<>>]
MalformedBlob == [kind |-> "malformed", list |-> <<>>]
NonListBlob == [kind |-> "nonlist", list |-> <<>>]
\* JSON.stringify(expenses)
ListBlob(s) == [kind |-> "list", list |-> s]

\* ------------------------------------------------------- storageUtils
getExpenses(blob, accessDenied) ==
  IF accessDenied THEN ListVal(<<>>)
  ELSE CASE blob.kind = "absent" -> ListVal(<<>>)
         [] blob.kind = "malformed" -> ListVal(<<>>)
         [] blob.kind = "nonlist" -> NonList
         [] OTHER -> ListVal(blob.list)

\* Mutant: a failed write removes the key.
saveExpensesClearing(blob, newExpenses, writeFails) ==
  IF writeFails THEN AbsentBlob ELSE ListBlob(newExpenses)

\* Mutant: a write keeps the stored records that newExpenses does not name.
saveExpensesMerging(blob, newExpenses, writeFails) ==
  IF writeFails THEN blob
  ELSE ListBlob(newExpenses \o
         SelectSeq(blob.list, LAMBDA e :
           \A i \in DOMAIN newExpenses : newExpenses[i].id # e.id))

saveExpenses(blob, newExpenses, writeFails) ==
  IF writeFails THEN blob ELSE ListBlob(newExpenses)

\* Mutant: the new list holds the new expense alone.
addNewReplacing(list, expense) == <<expense>>

\* [...expenses, expense]
addNew(list, expense) == Append(list, expense)

\* Mutant: the merge stamps createdAt as well.
mergeExpenseRestamping(expense, updatedExpense, clock) ==
  [k \in DOMAIN expense |->
     IF k \in {"updatedAt", "createdAt"} THEN ToISOString(CurrentDay, clock)
     ELSE IF k \in DOMAIN updatedExpense THEN updatedExpense[k]
     ELSE expense[k]]

\* { ...expense, ...updatedExpense, updatedAt: new Date().toISOString() }
mergeExpense(expense, updatedExpense, clock) ==
  [k \in DOMAIN expense |->
     IF k = "updatedAt" THEN ToISOString(CurrentDay, clock)
     ELSE IF k \in DOMAIN updatedExpense THEN updatedExpense[k]
     ELSE expense[k]]

\* Mutant: an update of an id that matches nothing inserts the record.
updateNewUpserting(list, id, updatedExpense, clock) ==
  IF \E i \in DOMAIN list : list[i].id = id
  THEN [i \in DOMAIN list |->
          IF list[i].id = id THEN mergeExpense(list[i], updatedExpense, clock)
          ELSE list[i]]
  ELSE Append(list, updatedExpense)

updateNew(list, id, updatedExpense, clock) ==
  [i \in DOMAIN list |->
     IF list[i].id = id THEN mergeExpense(list[i], updatedExpense, clock)
     ELSE list[i]]

\* Mutant: splice(findIndex(...), 1), which removes the last record when
\* the id matches nothing.
deleteNewSplicing(list, id) ==
  IF \E i \in DOMAIN list : list[i].id = id
  THEN SelectSeq(list, LAMBDA e : e.id # id)
  ELSE SubSeq(list, 1, Len(list) - 1)

\* Mutant: splice(findIndex(...)), which removes the match and all behind it.
deleteNewTruncating(list, id) ==
  IF \E i \in DOMAIN list : list[i].id = id
  THEN SubSeq(list, 1, (CHOOSE i \in DOMAIN list :
         list[i].id = id /\ \A j \in 1..(i - 1) : list[j].id # id) - 1)
  ELSE list

deleteNew(list, id) == SelectSeq(list, LAMBDA e : e.id # id)

\* The outcome of a storage operation: whether it threw, the list it
\* returned and the blob it left under the storage key.
Outcome(threw, ret, blob) == [threw |-> threw, ret |-> ret, blob |-> blob]

addExpense(blob, accessDenied, writeFails, expense) ==
  LET loaded == getExpenses(blob, accessDenied) IN
  IF loaded.kind # "list" THEN Outcome(TRUE, <<>>, blob)
  ELSE LET newExpenses == addNew(loaded.list, expense) IN
       Outcome(FALSE, newExpenses,
               saveExpenses(blob, newExpenses, accessDenied \/ writeFails))

updateExpense(blob, accessDenied, writeFails, id, updatedExpense, clock) ==
  LET loaded == getExpenses(blob, accessDenied) IN
  IF loaded.kind # "list" THEN Outcome(TRUE, <<>>, blob)
  ELSE LET newExpenses == updateNew(loaded.list, id, updatedExpense, clock) IN
       Outcome(FALSE, newExpenses,
               saveExpenses(blob, newExpenses, accessDenied \/ writeFails))

deleteExpense(blob, accessDenied, writeFails, id) ==
  LET loaded == getExpenses(blob, accessDenied) IN
  IF loaded.kind # "list" THEN Outcome(TRUE, <<>>, blob)
  ELSE LET newExpenses == deleteNew(loaded.list, id) IN
       Outcome(FALSE, newExpenses,
               saveExpenses(blob, newExpenses, accessDenied \/ writeFails))

\* ------------------------------------------------------------- lib/utils
\* `${Date.now()}-${Math.random().toString(36).substr(2, 9)}`
generateId(clock, random) == <<clock, random>>

\* ------------------------------------------------ the page's filter effect
DefaultFilters ==
  [category |-> "All", searchQuery |-> <<>>, startDate |-> 0, endDate |-> 0]

toLowerCase(s) ==
  [i \in DOMAIN s |->
     CASE s[i] = "A" -> "a"
       [] s[i] = "B" -> "b"
       [] s[i] = "C" -> "c"
       [] OTHER -> s[i]]

\* s.includes(q)
includes(s, q) ==
  \E i \in 1..(Len(s) - Len(q) + 1) : SubSeq(s, i, i + Len(q) - 1) = q

\* Mutant: the sort is left out.
sortSkipped(list) == list

\* Mutant: Array.prototype.sort of an engine whose sort is not stable.
sortUnstable(list) ==
  LET RECURSIVE ins(_)
      ins(l) ==
        IF l = <<>> THEN <<>>
        ELSE LET n == Len(l)
                 front == ins(SubSeq(l, 1, n - 1))
                 x == l[n]
                 k == Cardinality({i \in DOMAIN front :
                        TimeGeq(front[i].date, x.date) /\ front[i].date # x.date})
             IN SubSeq(front, 1, k) \o <<x>> \o SubSeq(front, k + 1, Len(front))
  IN ins(list)

\* Array.prototype.sort with (a, b) => time(b) - time(a): stable, descending.
RECURSIVE sortByDateDesc(_)
sortByDateDesc(list) ==
  IF list = <<>> THEN <<>>
  ELSE LET n == Len(list)
           front == sortByDateDesc(SubSeq(list, 1, n - 1))
           x == list[n]
           \* x goes behind every element that is not older than it
           k == Cardinality({i \in DOMAIN front : TimeGeq(front[i].date, x.date)})
       IN SubSeq(front, 1, k) \o <<x>> \o SubSeq(front, k + 1, Len(front))

\* Mutant: the end of the date range is exclusive.
filterExpensesExclusive(list, f) ==
  LET byCategory ==
        IF f.category # "" /\ f.category # "All"
        THEN SelectSeq(list, LAMBDA e : e.category = f.category) ELSE list
      bySearch ==
        IF f.searchQuery # <<>>
        THEN SelectSeq(byCategory, LAMBDA e :
               includes(toLowerCase(e.description), toLowerCase(f.searchQuery)))
        ELSE byCategory
      byStart ==
        IF f.startDate # 0
        THEN SelectSeq(bySearch, LAMBDA e :
               TimeGeq(e.date, ToISOString(f.startDate, 0)))
        ELSE bySearch
      byEnd ==
        IF f.endDate # 0
        THEN SelectSeq(byStart, LAMBDA e :
               ~TimeGeq(e.date, ToISOString(f.endDate, 0)))
        ELSE byStart
  IN sortByDateDesc(byEnd)

filterExpenses(list, f) ==
  LET byCategory ==
        IF f.category # "" /\ f.category # "All"
        THEN SelectSeq(list, LAMBDA e : e.category = f.category) ELSE list
      bySearch ==
        IF f.searchQuery # <<>>
        THEN SelectSeq(byCategory, LAMBDA e :
               includes(toLowerCase(e.description), toLowerCase(f.searchQuery)))
        ELSE byCategory
      byStart ==
        IF f.startDate # 0
        THEN SelectSeq(bySearch, LAMBDA e :
               TimeGeq(e.date, ToISOString(f.startDate, 0)))
        ELSE bySearch
      byEnd ==
        IF f.endDate # 0
        THEN SelectSeq(byStart, LAMBDA e :
               TimeGeq(ToISOString(f.endDate, 0), e.date))
        ELSE byStart
  IN sortByDateDesc(byEnd)

\* ----------------------------------------------------------- ExpenseForm
\* useState initialisation of formData from initialData.
initialFormData(initialData, clock) ==
  IF initialData = Null
  THEN [date |-> SplitT(ToISOString(CurrentDay, clock)), amount |-> "",
        category |-> "Food", description |-> <<>>, isSubmitting |-> FALSE]
  ELSE [date |-> SplitT(initialData[1].date),
        amount |-> amountToString(initialData[1].amount),
        category |-> initialData[1].category,
        description |-> initialData[1].description, isSubmitting |-> FALSE]

\* Mutant: the amount test is amount < 0, which lets a zero amount through.
validateFormNonNegative(fd) ==
  /\ fd.date # 0
  /\ fd.amount # ""
  /\ ~parseFloat(fd.amount).isNaN
  /\ parseFloat(fd.amount).value >= 0
  /\ Trim(fd.description) # <<>>
  /\ Len(Trim(fd.description)) >= 3

validateForm(fd) ==
  /\ fd.date # 0
  /\ fd.amount # ""
  /\ ~parseFloat(fd.amount).isNaN
  /\ parseFloat(fd.amount).value > 0
  /\ Trim(fd.description) # <<>>
  /\ Len(Trim(fd.description)) >= 3

\* The Expense handleSubmit builds from the form and initialData.
submittedExpense(fd, initialData, clock, random) ==
  [id |-> IF initialData # Null THEN initialData[1].id
          ELSE generateId(clock, random),
   date |-> ToISOString(fd.date, 0),
   amount |-> parseFloat(fd.amount).value,
   category |-> fd.category,
   description |-> Trim(fd.description),
   createdAt |-> IF initialData # Null THEN initialData[1].createdAt
                 ELSE ToISOString(CurrentDay, clock),
   updatedAt |-> ToISOString(CurrentDay, clock)]

\* What the user types into the form before submitting it.
FormInputs ==
  { [date |-> 1, amount |-> "1", category |-> "Food",
     description |-> <<"a", "b", "c">>, isSubmitting |-> FALSE],
    [date |-> 2, amount |-> "2", category |-> "Bills",
     description |-> <<"B", "a", "c", " ">>, isSubmitting |-> FALSE] }

TypedInputs == {Null} \cup {Some(f) : f \in FormInputs}

\* -------------------------------------------------------------------- Init
\* The record of a storage operation: which one, by which tab, whether the
\* id it was given matched a stored record, whether an exception escaped it,
\* whether its setItem threw, whether its write dropped a stored record
\* other than the one it was asked to delete, and whether the storage held,
\* when it began, a record that the tab's list did not.
Op(op, t, found, threw, writeFailed, lost, unseen) ==
  [op |-> op, tab |-> t, found |-> found, threw |-> threw,
   writeFailed |-> writeFailed, lost |-> lost, unseen |-> unseen]
NoOp == Op("none", 0, FALSE, FALSE, FALSE, FALSE, FALSE)

NoPending == [newExpenses |-> <<>>, id |-> <<>>, found |-> FALSE]

\* The Dashboard before its first render.
NoDashboard == [expenses |-> <<>>, summary |-> Null]

Init ==
  /\ storage = AbsentBlob
  /\ denied = FALSE
  /\ now = 1
  /\ status = [t \in Tabs |-> "closed"]
  /\ expenses = [t \in Tabs |-> ListVal(<<>>)]
  /\ filters = [t \in Tabs |-> DefaultFilters]
  /\ filteredExpenses = [t \in Tabs |-> <<>>]
  /\ editingExpense = [t \in Tabs |-> Null]
  /\ showForm = [t \in Tabs |-> FALSE]
  /\ formData = [t \in Tabs |-> Null]
  /\ pc = [t \in Tabs |-> "idle"]
  /\ pending = [t \in Tabs |-> NoPending]
  /\ last = NoOp
  /\ timezone = 0
  /\ dashboard = NoDashboard
  /\ csvContent = Null

\* ------------------------------------------------------------ ExpensesPage
hasId(list, id) == \E i \in DOMAIN list : list[i].id = id

\* Whether the storage holds a record that the list of tab t does not.
holdsUnseen(t) ==
  /\ expenses[t].kind = "list"
  /\ \E i \in DOMAIN getExpenses(storage, denied).list :
       ~hasId(expenses[t].list, getExpenses(storage, denied).list[i].id)

\* Whether writing newExpenses over blob drops a stored record whose id is
\* not the one being deleted.
drops(blob, newBlob, deletedId) ==
  /\ blob.kind = "list" /\ newBlob # blob
  /\ \E i \in DOMAIN blob.list :
       /\ blob.list[i].id # deletedId
       /\ ~hasId(newBlob.list, blob.list[i].id)

\* Mutant: the page applies the change to the list it holds instead of
\* taking the list the storage operation returned, so a stored record that
\* it did not hold stays out of it.
shownLocally(t, newExpenses) ==
  LET local == SelectSeq(newExpenses, LAMBDA e :
                 \/ hasId(expenses[t].list, e.id)
                 \/ ~hasId(getExpenses(storage, denied).list, e.id))
  IN /\ expenses' = [expenses EXCEPT ![t] = ListVal(local)]
     /\ filteredExpenses' =
          [filteredExpenses EXCEPT ![t] = filterExpenses(local, filters[t])]

\* The page after a storage operation returned newExpenses: setExpenses,
\* then the filter effect recomputes filteredExpenses.
shown(t, newExpenses) ==
  /\ expenses' = [expenses EXCEPT ![t] = ListVal(newExpenses)]
  /\ filteredExpenses' =
       [filteredExpenses EXCEPT ![t] = filterExpenses(newExpenses, filters[t])]

\* The page is opened or reloaded: the initial state, then the mount effect
\* loads the collection and the filter effect runs on it.
Mount(t) ==
  LET loaded == getExpenses(storage, denied) IN
  /\ noExport
  /\ pc[t] = "idle"
  /\ status' = [status EXCEPT ![t] =
                  IF loaded.kind = "list" THEN "ready" ELSE "crashed"]
  /\ expenses' = [expenses EXCEPT ![t] = loaded]
  /\ filters' = [filters EXCEPT ![t] = DefaultFilters]
  /\ filteredExpenses' = [filteredExpenses EXCEPT ![t] =
       IF loaded.kind = "list" THEN filterExpenses(loaded.list, DefaultFilters)
       ELSE <<>>]
  /\ editingExpense' = [editingExpense EXCEPT ![t] = Null]
  /\ showForm' = [showForm EXCEPT ![t] = FALSE]
  /\ formData' = [formData EXCEPT ![t] = Null]
  /\ last' = Op("load", t, FALSE, loaded.kind # "list", FALSE, FALSE, FALSE)
  /\ UNCHANGED <<storage, denied, now, pc, pending>>

\* onClick={() => setShowForm(!showForm)}
ToggleForm(t) ==
  /\ noExport
  /\ status[t] = "ready" /\ pc[t] = "idle"
  /\ showForm' = [showForm EXCEPT ![t] = ~showForm[t]]
  /\ formData' = [formData EXCEPT ![t] =
       IF showForm[t] THEN Null
       ELSE Some(initialFormData(editingExpense[t], now))]
  /\ UNCHANGED <<storage, denied, now, status, expenses, filters,
                 filteredExpenses, editingExpense, pc, pending>>
  /\ last' = NoOp

\* Edit is clicked on the i-th displayed record. A form that is already
\* mounted keeps its state.
handleEditClick(t, i) ==
  /\ noExport
  /\ status[t] = "ready" /\ pc[t] = "idle"
  /\ i \in DOMAIN filteredExpenses[t]
  /\ editingExpense' = [editingExpense EXCEPT ![t] = Some(filteredExpenses[t][i])]
  /\ showForm' = [showForm EXCEPT ![t] = TRUE]
  /\ formData' = [formData EXCEPT ![t] =
       IF showForm[t] THEN formData[t]
       ELSE Some(initialFormData(Some(filteredExpenses[t][i]), now))]
  /\ UNCHANGED <<storage, denied, now, status, expenses, filters,
                 filteredExpenses, pc, pending>>
  /\ last' = NoOp

handleCancelEdit(t) ==
  /\ noExport
  /\ status[t] = "ready" /\ pc[t] = "idle"
  /\ showForm[t]
  /\ editingExpense' = [editingExpense EXCEPT ![t] = Null]
  /\ showForm' = [showForm EXCEPT ![t] = FALSE]
  /\ formData' = [formData EXCEPT ![t] = Null]
  /\ UNCHANGED <<storage, denied, now, status, expenses, filters,
                 filteredExpenses, pc, pending>>
  /\ last' = NoOp

handleAddExpense(t, fd, expense, writeFails) ==
  LET out == addExpense(storage, denied, writeFails, expense) IN
  /\ noExport
  /\ Len(getExpenses(storage, denied).list) < MaxLen
  /\ storage' = out.blob
  /\ last' = Op("add", t, FALSE, out.threw,
                ~out.threw /\ (denied \/ writeFails),
                drops(storage, out.blob, <<>>), holdsUnseen(t))
  /\ IF out.threw
     THEN /\ formData' = [formData EXCEPT ![t] =
                Some([fd EXCEPT !.isSubmitting = TRUE])]
          /\ UNCHANGED <<expenses, filteredExpenses, showForm>>
     ELSE /\ shown(t, out.ret)
          /\ showForm' = [showForm EXCEPT ![t] = FALSE]
          /\ formData' = [formData EXCEPT ![t] = Null]
  /\ UNCHANGED <<denied, now, status, filters, editingExpense, pc, pending>>

handleUpdateExpense(t, fd, expense, writeFails) ==
  LET out == updateExpense(storage, denied, writeFails, expense.id, expense, now) IN
  /\ noExport
  /\ storage' = out.blob
  /\ last' = Op("update", t,
                hasId(getExpenses(storage, denied).list, expense.id), out.threw,
                ~out.threw /\ (denied \/ writeFails),
                drops(storage, out.blob, <<>>), holdsUnseen(t))
  /\ IF out.threw
     THEN /\ formData' = [formData EXCEPT ![t] =
                Some([fd EXCEPT !.isSubmitting = TRUE])]
          /\ UNCHANGED <<expenses, filteredExpenses, showForm, editingExpense>>
     ELSE /\ shown(t, out.ret)
          /\ editingExpense' = [editingExpense EXCEPT ![t] = Null]
          /\ showForm' = [showForm EXCEPT ![t] = FALSE]
          /\ formData' = [formData EXCEPT ![t] = Null]
  /\ UNCHANGED <<denied, now, status, filters, pc, pending>>

\* The form is submitted, after the user has typed `typed` into its fields
\* (Null: the fields are submitted as they stand): validateForm, then
\* onSubmit, which the page binds to handleUpdateExpense in edit mode and
\* to handleAddExpense otherwise.
handleSubmit(t, typed, random, writeFails) ==
  /\ status[t] = "ready" /\ pc[t] = "idle"
  /\ showForm[t]
  /\ ~formData[t][1].isSubmitting
  /\ LET fd == IF typed = Null THEN formData[t][1] ELSE typed[1] IN
     IF ~validateForm(fd)
     THEN /\ formData' = [formData EXCEPT ![t] = Some(fd)]
          /\ last' = NoOp
          /\ UNCHANGED <<storage, denied, now, status, expenses, filters,
                         filteredExpenses, editingExpense, showForm, pc,
                         pending>>
          /\ noExport
     ELSE LET expense == submittedExpense(fd, editingExpense[t], now, random)
          IN IF editingExpense[t] # Null
             THEN handleUpdateExpense(t, fd, expense, writeFails)
             ELSE handleAddExpense(t, fd, expense, writeFails)

\* Delete is clicked on the i-th displayed record.
handleDeleteExpense(t, i, writeFails) ==
  /\ noExport
  /\ status[t] = "ready" /\ pc[t] = "idle"
  /\ i \in DOMAIN filteredExpenses[t]
  /\ LET id == filteredExpenses[t][i].id
         out == deleteExpense(storage, denied, writeFails, id)
     IN /\ storage' = out.blob
        /\ last' = Op("delete", t,
                      hasId(getExpenses(storage, denied).list, id), out.threw,
                      ~out.threw /\ (denied \/ writeFails),
                      drops(storage, out.blob, id), holdsUnseen(t))
        /\ IF out.threw THEN UNCHANGED <<expenses, filteredExpenses>>
           ELSE shown(t, out.ret)
  /\ UNCHANGED <<denied, now, status, filters, editingExpense, showForm,
                 formData, pc, pending>>

\* A millisecond passes.
Tick ==
  /\ UNCHANGED view
  /\ now + 1 \in ClockValues
  /\ now' = now + 1
  /\ UNCHANGED <<storage, denied, status, expenses, filters, filteredExpenses,
                 editingExpense, showForm, formData, pc, pending>>
  /\ last' = NoOp

\* ------------------------------------------------------------------- Spec
\* The single writer the design assumes: one tab, the first.
Writer == CHOOSE t \in Tabs : \A u \in Tabs : t <= u

Next ==
  \/ Tick
  \/ Mount(Writer)
  \/ ToggleForm(Writer)
  \/ \E i \in 1..MaxLen : handleEditClick(Writer, i)
  \/ handleCancelEdit(Writer)
  \/ \E f \in TypedInputs, r \in RandomValues, wf \in BOOLEAN :
       handleSubmit(Writer, f, r, wf)
  \/ \E i \in 1..MaxLen, wf \in BOOLEAN : handleDeleteExpense(Writer, i, wf)

Spec == Init /\ [][Next]_vars

\* -------------------------------------------------------------- SpecFault
\* The browser starts or stops refusing access to localStorage.
ToggleAccess ==
  /\ noExport
  /\ denied' = ~denied
  /\ UNCHANGED <<storage, now, status, expenses, filters, filteredExpenses,
                 editingExpense, showForm, formData, pc, pending>>
  /\ last' = NoOp

\* Something other than the application writes the storage key, or clears it.
ForeignWrite(blob) ==
  /\ noExport
  /\ storage' = blob
  /\ UNCHANGED <<denied, now, status, expenses, filters, filteredExpenses,
                 editingExpense, showForm, formData, pc, pending>>
  /\ last' = NoOp

NextFault ==
  \/ Next
  \/ ToggleAccess
  \/ \E b \in {AbsentBlob, MalformedBlob, NonListBlob} : ForeignWrite(b)

SpecFault == Init /\ [][NextFault]_vars

\* --------------------------------------------------------------- SpecRace
\* Two tabs. A storage operation reads the key (begin) and writes it
\* (commit) in two steps; the other tab may run between them.

\* handleSubmit up to and including getExpenses() of the storage operation.
beginSubmit(t, typed, random) ==
  /\ noExport
  /\ status[t] = "ready" /\ pc[t] = "idle"
  /\ showForm[t]
  /\ ~formData[t][1].isSubmitting
  /\ validateForm(typed)
  /\ LET expense == submittedExpense(typed, editingExpense[t], now, random)
         loaded == getExpenses(storage, denied)
     IN /\ loaded.kind = "list"
        /\ IF editingExpense[t] # Null
           THEN /\ pc' = [pc EXCEPT ![t] = "update"]
                /\ pending' = [pending EXCEPT ![t] =
                      [newExpenses |->
                         updateNew(loaded.list, expense.id, expense, now),
                       id |-> expense.id,
                       found |-> hasId(loaded.list, expense.id)]]
           ELSE /\ Len(loaded.list) < MaxRaceLen
                /\ pc' = [pc EXCEPT ![t] = "add"]
                /\ pending' = [pending EXCEPT ![t] =
                      [newExpenses |-> addNew(loaded.list, expense),
                       id |-> expense.id, found |-> FALSE]]
  /\ UNCHANGED <<storage, denied, now, status, expenses, filters,
                 filteredExpenses, editingExpense, showForm, formData>>
  /\ last' = NoOp

\* handleDeleteExpense up to and including getExpenses().
beginDelete(t, i) ==
  /\ noExport
  /\ status[t] = "ready" /\ pc[t] = "idle"
  /\ i \in DOMAIN filteredExpenses[t]
  /\ LET id == filteredExpenses[t][i].id
         loaded == getExpenses(storage, denied)
     IN /\ loaded.kind = "list"
        /\ pc' = [pc EXCEPT ![t] = "delete"]
        /\ pending' = [pending EXCEPT ![t] =
              [newExpenses |-> deleteNew(loaded.list, id), id |-> id,
               found |-> hasId(loaded.list, id)]]
  /\ UNCHANGED <<storage, denied, now, status, expenses, filters,
                 filteredExpenses, editingExpense, showForm, formData>>
  /\ last' = NoOp

\* saveExpenses(newExpenses), the return, and the rest of the handler.
commit(t) ==
  /\ noExport
  /\ pc[t] # "idle"
  /\ storage' = saveExpenses(storage, pending[t].newExpenses, denied)
  /\ last' = Op(pc[t], t, pending[t].found, FALSE, denied,
                drops(storage, saveExpenses(storage, pending[t].newExpenses, denied),
                      IF pc[t] = "delete" THEN pending[t].id ELSE <<>>),
                holdsUnseen(t))
  /\ shown(t, pending[t].newExpenses)
  /\ editingExpense' = [editingExpense EXCEPT ![t] =
       IF pc[t] = "update" THEN Null ELSE editingExpense[t]]
  /\ showForm' = [showForm EXCEPT ![t] =
       IF pc[t] = "delete" THEN showForm[t] ELSE FALSE]
  /\ formData' = [formData EXCEPT ![t] =
       IF pc[t] = "delete" THEN formData[t] ELSE Null]
  /\ pc' = [pc EXCEPT ![t] = "idle"]
  /\ pending' = [pending EXCEPT ![t] = NoPending]
  /\ UNCHANGED <<denied, now, status, filters>>

\* What the users type in the two-tab runs.
RaceInputs ==
  { [date |-> 1, amount |-> "1", category |-> "Food",
     description |-> <<"a", "b", "c">>, isSubmitting |-> FALSE] }

NextRace ==
  \E t \in Tabs :
    \/ Mount(t)
    \/ ToggleForm(t)
    \/ \E i \in 1..MaxLen : handleEditClick(t, i)
    \/ handleCancelEdit(t)
    \/ \E f \in RaceInputs, r \in RandomValues : beginSubmit(t, f, r)
    \/ \E i \in 1..MaxLen : beginDelete(t, i)
    \/ commit(t)

SpecRace == Init /\ [][NextRace]_vars

\* --------------------------------------------------------------- lib/utils
\* JS numbers are binary floating point: a sum is rounded to the significand's
\* width, to nearest, ties to even. The width is scaled down from 53 bits.
MantissaBits == 3

\* The unit in the last place of n, a non-negative integer.
RECURSIVE ulp(_, _)
ulp(n, u) == IF n < u * 2^MantissaBits THEN u ELSE ulp(n, 2 * u)

roundToNearestEven(n) ==
  LET u == ulp(n, 1)
      q == n \div u
      r == n % u
  IN IF 2 * r < u THEN q * u
     ELSE IF 2 * r > u THEN (q + 1) * u
     ELSE IF q % 2 = 0 THEN q * u ELSE (q + 1) * u

\* a + b on JS numbers.
plus(a, b) == roundToNearestEven(a + b)

RECURSIVE gcd(_, _)
gcd(a, b) == IF b = 0 THEN a ELSE gcd(b, a % b)

\* a / n on JS numbers, n a length: the quotient as a fraction in lowest
\* terms; a denominator of 0 is the NaN or Infinity of a division by zero.
divide(a, n) ==
  IF n = 0 THEN [num |-> IF a = 0 THEN 0 ELSE 1, den |-> 0]
  ELSE [num |-> a \div gcd(a, n), den |-> n \div gcd(a, n)]

\* The calendar, scaled down: days are numbered from 1.
DaysPerMonth == 2
MonthsPerYear == 2

\* The local calendar day of an instant: a negative offset moves the first
\* hours of a UTC day to the day before. (The clock values reached are early
\* in the day, so a positive offset moves nothing across midnight.)
LocalDay(iso, tz) == IF iso[2] + tz < 0 THEN iso[1] - 1 ELSE iso[1]
\* new Date(iso).getMonth(), .getFullYear(): local time.
getMonth(iso, tz) == ((LocalDay(iso, tz) - 1) \div DaysPerMonth) % MonthsPerYear
getFullYear(iso, tz) == ((LocalDay(iso, tz) - 1) \div DaysPerMonth) \div MonthsPerYear

\* reduce((sum, expense) => sum + expense.amount, 0)
RECURSIVE reduceSum(_)
reduceSum(list) ==
  IF list = <<>> THEN 0
  ELSE plus(reduceSum(SubSeq(list, 1, Len(list) - 1)), list[Len(list)].amount)

\* The forEach over Object.keys(categoryTotals), from the i-th key on.
RECURSIVE topFrom(_, _, _, _)
topFrom(categoryTotals, i, maxAmount, topCategory) ==
  IF i > Len(ExpenseCategories) THEN topCategory
  ELSE LET category == ExpenseCategories[i] IN
       IF categoryTotals[category] > maxAmount
       THEN topFrom(categoryTotals, i + 1, categoryTotals[category], Some(category))
       ELSE topFrom(categoryTotals, i + 1, maxAmount, topCategory)

monthlyExpenses(list, clock, tz) ==
  SelectSeq(list, LAMBDA e :
    /\ getMonth(e.date, tz) = getMonth(ToISOString(CurrentDay, clock), tz)
    /\ getFullYear(e.date, tz) = getFullYear(ToISOString(CurrentDay, clock), tz))

\* Mutant: a later category takes the top from an equal earlier one.
topCategoryLatest(categoryTotals) ==
  LET best == {i \in DOMAIN ExpenseCategories :
                 /\ categoryTotals[ExpenseCategories[i]] > 0
                 /\ \A j \in DOMAIN ExpenseCategories :
                      categoryTotals[ExpenseCategories[j]]
                        <= categoryTotals[ExpenseCategories[i]]}
  IN IF best = {} THEN Null
     ELSE Some(ExpenseCategories[CHOOSE i \in best : \A j \in best : j <= i])

topCategory(categoryTotals) == topFrom(categoryTotals, 1, 0, Null)

\* Mutant: the average is taken without looking at the length.
averageExpenseUnguarded(list, totalExpenses) == divide(totalExpenses, Len(list))

averageExpense(list, totalExpenses) ==
  IF Len(list) > 0 THEN divide(totalExpenses, Len(list)) ELSE divide(0, 1)

calculateSummary(list, clock, tz) ==
  LET totalExpenses == reduceSum(list)
      categoryTotals ==
        [c \in {ExpenseCategories[i] : i \in DOMAIN ExpenseCategories} |->
           reduceSum(SelectSeq(list, LAMBDA e : e.category = c))]
  IN [totalExpenses |-> totalExpenses,
      monthlyTotal |-> reduceSum(monthlyExpenses(list, clock, tz)),
      categoryTotals |-> categoryTotals,
      topCategory |-> topCategory(categoryTotals),
      averageExpense |-> averageExpense(list, totalExpenses)]

\* Mutant: replace('"', '""'), which doubles the first quote only.
replaceQuotesFirst(s) ==
  IF \A i \in DOMAIN s : s[i] # "\""
  THEN s
  ELSE LET k == CHOOSE i \in DOMAIN s :
                  s[i] = "\"" /\ \A j \in 1..(i - 1) : s[j] # "\""
       IN SubSeq(s, 1, k) \o <<"\"">> \o SubSeq(s, k + 1, Len(s))

\* description.replace(/"/g, '""')
RECURSIVE replaceQuotes(_)
replaceQuotes(s) ==
  IF s = <<>> THEN <<>>
  ELSE (IF Head(s) = "\"" THEN <<"\"", "\"">> ELSE <<Head(s)>>)
         \o replaceQuotes(Tail(s))

\* parts.join(sep): a text is a sequence of strings.
RECURSIVE join(_, _)
join(parts, sep) ==
  IF parts = <<>> THEN <<>>
  ELSE IF Len(parts) = 1 THEN parts[1]
  ELSE parts[1] \o <<sep>> \o join(Tail(parts), sep)

\* The row of one expense: its four fields as strings, joined by commas.
csvRow(expense) ==
  join(<< <<ToString(expense.date)>>, <<expense.category>>,
          <<ToString(expense.amount)>>,
          <<"\"">> \o replaceQuotes(expense.description) \o <<"\"">> >>, ",")

\* Mutant: the rows come out latest first.
exportToCSVReversed(list) ==
  join(<< join(<< <<"Date">>, <<"Category">>, <<"Amount">>, <<"Description">> >>, ",") >>
         \o [i \in DOMAIN list |-> csvRow(list[Len(list) + 1 - i])], "\n")

\* csvContent of exportToCSV.
exportToCSV(list) ==
  join(<< join(<< <<"Date">>, <<"Category">>, <<"Amount">>, <<"Description">> >>, ",") >>
         \o [i \in DOMAIN list |-> csvRow(list[i])], "\n")

\* Mutant: the effect sorts the page's array itself when no predicate has
\* replaced it by a new one (let filtered = expenses).
filterEffectAliasing(list, f) ==
  [expenses |->
     IF /\ f.category \in {"", "All"} /\ f.searchQuery = <<>>
        /\ f.startDate = 0 /\ f.endDate = 0
     THEN sortByDateDesc(list) ELSE list,
   filtered |-> filterExpenses(list, f)]

\* The filter effect on the arrays it touches: `filtered` starts as a copy
\* ([...expenses]), filter() returns new arrays, sort() sorts `filtered`.
filterEffect(list, f) ==
  [expenses |-> list, filtered |-> filterExpenses(list, f)]

\* --------------------------------------------------------------- SpecView
\* Most records of a stored collection the view is computed from.
MaxViewLen == 3

Timezones == {-1, 0, 1}

\* The first day of the current month, a day of the month before, and a
\* day of the same month a year before.
FirstDay == CurrentDay - ((CurrentDay - 1) % DaysPerMonth)
OtherMonthDay == FirstDay - DaysPerMonth
OtherYearDay == FirstDay - DaysPerMonth * MonthsPerYear

\* A record as the form submits it: the date at midnight UTC.
ViewExpense(k, date, amount, category, description) ==
  [id |-> generateId(k, 1), date |-> ToISOString(date, 0), amount |-> amount,
   category |-> category, description |-> description,
   createdAt |-> ToISOString(date, 1), updatedAt |-> ToISOString(date, 1)]

ViewRecords ==
  { ViewExpense(1, FirstDay, 2^MantissaBits, "Food", <<"a", "b", "c">>),
    ViewExpense(2, FirstDay, 1, "Bills", <<"A", "B", "c">>),
    ViewExpense(3, CurrentDay, 1, "Bills", <<"B", "a", "c">>),
    ViewExpense(4, OtherMonthDay, 1, "Food", <<"a", "\"", "b", "\"", ",", "c">>),
    ViewExpense(5, OtherYearDay, 1, "Other", <<"a", "b", "c">>) }

\* The stored collections: the records in every order, none twice.
ViewLists ==
  {l \in UNION {[1..n -> ViewRecords] : n \in 0..MaxViewLen} :
     \A i, j \in DOMAIN l : i # j => l[i] # l[j]}

\* What the user sets a filter field to.
FilterEdits ==
  { <<"category", "All">>, <<"category", "Bills">>,
    <<"searchQuery", <<>>>>, <<"searchQuery", <<"A", "b">>>>,
    <<"startDate", 0>>, <<"startDate", FirstDay>>,
    <<"endDate", 0>>, <<"endDate", FirstDay>> }

InitView ==
  /\ \E l \in ViewLists :
       /\ storage = ListBlob(l)
       /\ expenses = [t \in Tabs |-> ListVal(IF t = Writer THEN l ELSE <<>>)]
       /\ filteredExpenses =
            [t \in Tabs |-> IF t = Writer THEN filterExpenses(l, DefaultFilters)
                            ELSE <<>>]
  /\ denied = FALSE
  /\ now = 1
  /\ status = [t \in Tabs |-> IF t = Writer THEN "ready" ELSE "closed"]
  /\ filters = [t \in Tabs |-> DefaultFilters]
  /\ editingExpense = [t \in Tabs |-> Null]
  /\ showForm = [t \in Tabs |-> FALSE]
  /\ formData = [t \in Tabs |-> Null]
  /\ pc = [t \in Tabs |-> "idle"]
  /\ pending = [t \in Tabs |-> NoPending]
  /\ last = NoOp
  /\ timezone \in Timezones
  /\ dashboard = NoDashboard
  /\ csvContent = Null

\* The page after setFilters(newFilters): the filter effect runs.
filtered(t, newFilters) ==
  /\ filters' = [filters EXCEPT ![t] = newFilters]
  /\ expenses' = [expenses EXCEPT ![t] =
       ListVal(filterEffect(expenses[t].list, newFilters).expenses)]
  /\ filteredExpenses' = [filteredExpenses EXCEPT ![t] =
       filterEffect(expenses[t].list, newFilters).filtered]
  /\ csvContent' = Null
  /\ last' = NoOp
  /\ UNCHANGED <<storage, denied, now, status, editingExpense, showForm,
                 formData, pc, pending, timezone, dashboard>>

\* onFilterChange({ ...filters, [field]: value })
onFilterChange(t, field, value) ==
  /\ status[t] = "ready" /\ pc[t] = "idle"
  /\ filtered(t, [filters[t] EXCEPT ![field] = value])

\* Clear Filters is clicked.
clearFilters(t) ==
  /\ status[t] = "ready" /\ pc[t] = "idle"
  /\ filters[t] # DefaultFilters
  /\ filtered(t, DefaultFilters)

\* Mutant: the render sorts its expenses state in place before summing.
DashboardRenderSorting ==
  /\ dashboard' =
       [expenses |-> sortByDateDesc(dashboard.expenses),
        summary |-> Some(calculateSummary(dashboard.expenses, now, timezone))]
  /\ csvContent' = Null
  /\ UNCHANGED <<storage, denied, now, status, expenses, filters,
                 filteredExpenses, editingExpense, showForm, formData, pc,
                 pending, last, timezone>>

\* The Dashboard renders: calculateSummary(expenses) on its expenses state,
\* which is empty until the mount effect has run.
DashboardRender ==
  /\ dashboard' =
       [expenses |-> dashboard.expenses,
        summary |-> Some(calculateSummary(dashboard.expenses, now, timezone))]
  /\ csvContent' = Null
  /\ UNCHANGED <<storage, denied, now, status, expenses, filters,
                 filteredExpenses, editingExpense, showForm, formData, pc,
                 pending, last, timezone>>

\* The Dashboard's mount effect loads the collection; the render follows.
DashboardMount ==
  LET loaded == getExpenses(storage, denied) IN
  /\ loaded.kind = "list"
  /\ dashboard' =
       [expenses |-> loaded.list,
        summary |-> Some(calculateSummary(loaded.list, now, timezone))]
  /\ csvContent' = Null
  /\ UNCHANGED <<storage, denied, now, status, expenses, filters,
                 filteredExpenses, editingExpense, showForm, formData, pc,
                 pending, last, timezone>>

\* Mutant: the handler exports the page's whole list.
handleExportCSVAll(t) ==
  /\ status[t] = "ready" /\ pc[t] = "idle"
  /\ Len(filteredExpenses[t]) > 0
  /\ csvContent' = Some(exportToCSV(expenses[t].list))
  /\ last' = NoOp
  /\ UNCHANGED <<storage, denied, now, status, expenses, filters,
                 filteredExpenses, editingExpense, showForm, formData, pc,
                 pending, timezone, dashboard>>

\* Mutant: the handler reverses the view in place before it exports it.
handleExportCSVReversing(t) ==
  LET reversed == [i \in DOMAIN filteredExpenses[t] |->
                     filteredExpenses[t][Len(filteredExpenses[t]) + 1 - i]]
  IN /\ status[t] = "ready" /\ pc[t] = "idle"
     /\ Len(filteredExpenses[t]) > 0
     /\ csvContent' = Some(exportToCSV(filteredExpenses[t]))
     /\ filteredExpenses' = [filteredExpenses EXCEPT ![t] = reversed]
     /\ last' = NoOp
     /\ UNCHANGED <<storage, denied, now, status, expenses, filters,
                    editingExpense, showForm, formData, pc, pending, timezone,
                    dashboard>>

\* Mutant: the button is rendered whatever the view holds.
handleExportCSVUnguarded(t) ==
  /\ status[t] = "ready" /\ pc[t] = "idle"
  /\ csvContent' = Some(exportToCSV(filteredExpenses[t]))
  /\ last' = NoOp
  /\ UNCHANGED <<storage, denied, now, status, expenses, filters,
                 filteredExpenses, editingExpense, showForm, formData, pc,
                 pending, timezone, dashboard>>

\* Export CSV is clicked: exportToCSV(filteredExpenses). The button is
\* rendered while filteredExpenses.length > 0.
handleExportCSV(t) ==
  /\ status[t] = "ready" /\ pc[t] = "idle"
  /\ Len(filteredExpenses[t]) > 0
  /\ csvContent' = Some(exportToCSV(filteredExpenses[t]))
  /\ last' = NoOp
  /\ UNCHANGED <<storage, denied, now, status, expenses, filters,
                 filteredExpenses, editingExpense, showForm, formData, pc,
                 pending, timezone, dashboard>>

NextView ==
  \/ \E e \in FilterEdits : onFilterChange(Writer, e[1], e[2])
  \/ clearFilters(Writer)
  \/ DashboardMount
  \/ DashboardRender
  \/ handleExportCSV(Writer)
  \/ Tick

SpecView == InitView /\ [][NextView]_vars

\* --------------------------------------------------------------- SpecTabs
\* Two tabs on the same storage key, every handler running to completion
\* (a tab's handler is one synchronous turn); a setItem may throw. The
\* clock stands still.
NextTabs ==
  \E t \in Tabs :
    \/ Mount(t)
    \/ ToggleForm(t)
    \/ \E i \in 1..MaxLen : handleEditClick(t, i)
    \/ handleCancelEdit(t)
    \/ \E f \in RaceInputs, r \in RandomValues, wf \in BOOLEAN :
         handleSubmit(t, Some(f), r, wf)
    \/ \E i \in 1..MaxLen, wf \in BOOLEAN : handleDeleteExpense(t, i, wf)

SpecTabs == Init /\ [][NextTabs]_vars

\* --------------------------------------------------------------- SpecForm
\* Spec with a user who also submits what the form must refuse: no date,
\* no amount, an amount that is no number, zero or negative, a description
\* that is blank or too short once trimmed.
InvalidInputs ==
  LET ok == [date |-> 1, amount |-> "1", category |-> "Food",
             description |-> <<"a", "b", "c">>, isSubmitting |-> FALSE]
  IN { [ok EXCEPT !.date = 0],
       [ok EXCEPT !.amount = ""],
       [ok EXCEPT !.amount = "x"],
       [ok EXCEPT !.amount = "0"],
       [ok EXCEPT !.amount = "-1"],
       [ok EXCEPT !.description = <<" ", " ", " ">>],
       [ok EXCEPT !.description = <<" ", "a", "b", " ">>] }

\* The clock stands still: no claim about the form reads it.
NextForm ==
  \/ Mount(Writer)
  \/ ToggleForm(Writer)
  \/ \E i \in 1..MaxLen : handleEditClick(Writer, i)
  \/ handleCancelEdit(Writer)
  \/ \E f \in TypedInputs \cup {Some(x) : x \in InvalidInputs},
        r \in RandomValues, wf \in BOOLEAN :
       handleSubmit(Writer, f, r, wf)
  \/ \E i \in 1..MaxLen, wf \in BOOLEAN : handleDeleteExpense(Writer, i, wf)

SpecForm == Init /\ [][NextForm]_vars

\* --------------------------------------------------------------- SpecPage
\* The expenses page as a whole: the handlers of Spec, the filter fields
\* and the export. The clock stands still.
PageFilterEdits ==
  { <<"category", "All">>, <<"category", "Bills">>,
    <<"endDate", 0>>, <<"endDate", 1>> }

NextPage ==
  \/ Mount(Writer)
  \/ ToggleForm(Writer)
  \/ \E i \in 1..MaxLen : handleEditClick(Writer, i)
  \/ handleCancelEdit(Writer)
  \/ \E f \in TypedInputs, r \in RandomValues, wf \in BOOLEAN :
       handleSubmit(Writer, f, r, wf)
  \/ \E i \in 1..MaxLen, wf \in BOOLEAN : handleDeleteExpense(Writer, i, wf)
  \/ \E e \in PageFilterEdits : onFilterChange(Writer, e[1], e[2])
  \/ clearFilters(Writer)
  \/ handleExportCSV(Writer)

SpecPage == Init /\ [][NextPage]_vars

\* ---------------------------------------------------------------- SpecCsv
\* exportToCSV as a function of its argument: it is called with a list,
\* whatever the page shows, and builds csvContent from it.
exportCall(list) ==
  /\ csvContent' = Some(exportToCSV(list))
  /\ UNCHANGED <<storage, denied, now, status, expenses, filters,
                 filteredExpenses, editingExpense, showForm, formData, pc,
                 pending, last, timezone, dashboard>>

NextCsv ==
  \/ \E l \in ViewLists : exportCall(l)
  \/ Tick

SpecCsv == Init /\ [][NextCsv]_vars

\* ================================================================= claims
\* What load() returns now, and what it returns after the step.
Loaded == getExpenses(storage, denied).list
LoadedNext == getExpenses(storage', denied').list
\* The list the storage operation of the step returned to the page.
Returned == expenses'[Writer].list
\* The form contents a submission reads.
Fd(typed) == IF typed = Null THEN formData[Writer][1] ELSE typed[1]

\* The step is a valid submission in add mode: handleAddExpense(e), add(e).
\* (The first two conjuncts follow from the others; they come first to spare
\* the evaluation of the handler on the steps that are none.)
AddStep(typed, random, writeFails) ==
  /\ last'.op = "add"
  /\ last'.threw \/ (last'.writeFailed <=> (denied \/ writeFails))
  /\ editingExpense[Writer] = Null
  /\ validateForm(Fd(typed))
  /\ handleSubmit(Writer, typed, random, writeFails)
\* The step is a valid submission in edit mode: update(e.id, e).
UpdateStep(typed, random, writeFails) ==
  /\ last'.op = "update"
  /\ last'.threw \/ (last'.writeFailed <=> (denied \/ writeFails))
  /\ editingExpense[Writer] # Null
  /\ validateForm(Fd(typed))
  /\ handleSubmit(Writer, typed, random, writeFails)
\* The record handed to the storage operation by the submission.
Submitted(typed, random) ==
  submittedExpense(Fd(typed), editingExpense[Writer], now, random)

\* R is L without the records of the given id, the others in L's order.
KeepsOthers(R, L, id) ==
  LET keep == {i \in DOMAIN L : L[i].id # id} IN
  /\ Len(R) = Cardinality(keep)
  /\ \A i \in keep : R[Cardinality({j \in keep : j <= i})] = L[i]

C2_UpdateFrame ==
  [][last'.op = "update" =>
     (\A typed \in TypedInputs, r \in RandomValues, wf \in BOOLEAN :
       (UpdateStep(typed, r, wf) /\ hasId(Loaded, Submitted(typed, r).id)) =>
         LET e == Submitted(typed, r)
             L == Loaded
             R == Returned
         IN /\ Len(R) = Len(L)
            /\ \A i \in DOMAIN L :
                 IF L[i].id = e.id
                 THEN /\ R[i].id = L[i].id
                      /\ R[i].createdAt = L[i].createdAt
                      /\ R[i].updatedAt = ToISOString(CurrentDay, now)
                      /\ \A k \in DOMAIN e \ {"updatedAt"} : R[i][k] = e[k]
                      /\ \A k \in DOMAIN L[i] \ (DOMAIN e \cup {"updatedAt"}) :
                           R[i][k] = L[i][k]
                 ELSE R[i] = L[i]
            /\ LoadedNext = IF wf THEN L ELSE R)]_vars

\* A stored record has just been updated, later than it was created, in a
\* collection that holds another record too.
C2_Witness ==
  /\ last.op = "update" /\ last.found /\ ~last.threw /\ ~last.writeFailed
  /\ Len(storage.list) >= 2
  /\ \E i \in DOMAIN storage.list :
       /\ storage.list[i].updatedAt # storage.list[i].createdAt
       /\ storage.list[i].updatedAt = ToISOString(CurrentDay, now)

\* C3: update(id, fields) with an id that matches no stored record returns
\* the collection as it was and leaves the persisted collection as it was.
C3_UpdateMissingIsNoOp ==
  [][last'.op = "update" =>
     (\A typed \in TypedInputs, r \in RandomValues, wf \in BOOLEAN :
       (UpdateStep(typed, r, wf) /\ ~hasId(Loaded, Submitted(typed, r).id)) =>
         /\ Returned = Loaded
         /\ LoadedNext = Loaded
         /\ ~last'.threw)]_vars

\* An update of an id that is not stored has just run on a collection
\* that holds a record.
C3_Witness ==
  /\ last.op = "update" /\ ~last.found /\ ~last.threw
  /\ storage.kind = "list" /\ Len(storage.list) >= 1

\* C4: delete(id) with an id that matches no stored record returns the
\* collection unchanged, same records in the same order, and throws nothing.
C4_DeleteMissingIsNoOp ==
  [][\A i \in 1..MaxLen, wf \in BOOLEAN :
       (/\ handleDeleteExpense(Writer, i, wf)
        /\ ~hasId(Loaded, filteredExpenses[Writer][i].id)) =>
         /\ Returned = Loaded
         /\ LoadedNext = Loaded
         /\ ~last'.threw]_vars

\* A delete of an id that is not stored has just run on a collection that
\* holds a record.
C4_Witness ==
  /\ last.op = "delete" /\ ~last.found /\ ~last.threw
  /\ storage.kind = "list" /\ Len(storage.list) >= 1

C6_LoadReturnsList ==
  [][\A t \in Tabs :
       Mount(t) =>
         /\ expenses'[t].kind = "list"
         /\ (denied \/ storage.kind # "list") => expenses'[t] = ListVal(<<>>)]_vars

\* What C7 says of a step of each storage operation whose write fails.
WriteFailureSteps ==
  /\ \A typed \in TypedInputs, r \in RandomValues :
       AddStep(typed, r, TRUE) =>
         /\ ~last'.threw /\ last'.writeFailed /\ status' = status
         /\ storage' = storage
         /\ Returned = Append(Loaded, Submitted(typed, r))
  /\ \A typed \in TypedInputs, r \in RandomValues :
       UpdateStep(typed, r, TRUE) =>
         /\ ~last'.threw /\ last'.writeFailed /\ status' = status
         /\ storage' = storage
         /\ Len(Returned) = Len(Loaded)
  /\ \A i \in 1..MaxLen :
       handleDeleteExpense(Writer, i, TRUE) =>
         /\ ~last'.threw /\ last'.writeFailed /\ status' = status
         /\ storage' = storage
         /\ ~hasId(Returned, filteredExpenses[Writer][i].id)

\* C7: a storage operation whose write fails returns as one whose write
\* succeeded -- nothing is thrown, the page gets the new list -- and the
\* persisted collection is what it was before the call.
C7_WriteFailureIsSilent ==
  [][last'.op # "none" => WriteFailureSteps]_vars

\* The write of an add has just failed on a stored collection: the page
\* holds a record that the storage does not.
C7_Witness ==
  /\ last.op = "add" /\ last.writeFailed /\ ~last.threw
  /\ storage.kind = "list" /\ Len(storage.list) >= 1
  /\ Len(expenses[Writer].list) = Len(storage.list) + 1

\* C8 (as claimed): no storage operation lets an exception escape or takes
\* the page down, and after one that met a failure (a failed write, an
\* unreadable key, a blob that is no expense list) the list the page shows
\* is empty or the list it showed before.
C8_NoFailureIsFatal ==
  [][last'.op # "none" =>
       LET t == last'.tab IN
       /\ ~last'.threw
       /\ status'[t] # "crashed"
       /\ (last'.writeFailed \/ denied \/ storage.kind \in {"malformed", "nonlist"})
            => \/ filteredExpenses'[t] = <<>>
               \/ filteredExpenses'[t] = filteredExpenses[t]]_vars

\* C9 (as claimed): no two records of the persisted collection share an id.
C9_UniqueIds ==
  \A i, j \in DOMAIN storage.list :
    i # j => storage.list[i].id # storage.list[j].id

\* C10: a tab's write replaces whatever the key holds by the list the tab
\* computed from its own earlier read: every record stored meanwhile that
\* this list does not name is gone afterwards, and the write raises nothing.
C10_LastWriteWins ==
  [][\A t \in Tabs :
       commit(t) =>
         /\ \A i \in DOMAIN storage.list :
              ~hasId(pending[t].newExpenses, storage.list[i].id)
                => ~hasId(storage'.list, storage.list[i].id)
         /\ ~last'.threw /\ ~last'.writeFailed
         /\ status' = status]_vars

\* An add has just overwritten a record that the other tab persisted after
\* this tab's read: the other tab still shows it, the storage lacks it.
C10_Witness ==
  /\ last.op = "add" /\ last.lost /\ ~last.threw /\ ~last.writeFailed
  /\ \E u \in Tabs \ {last.tab} :
       \E i \in DOMAIN expenses[u].list :
         ~hasId(storage.list, expenses[u].list[i].id)

\* ------------------------------------------------------- claims C11 to C20
\* The summary the dashboard shows, and the list it was computed from.
Summary == dashboard.summary[1]
Summarized == dashboard.summary # Null
CategorySet == {ExpenseCategories[i] : i \in DOMAIN ExpenseCategories}

\* The sum of the six buckets, added up as JS numbers in the order of the
\* keys.
RECURSIVE BucketSum(_, _)
BucketSum(categoryTotals, i) ==
  IF i = 0 THEN 0
  ELSE plus(BucketSum(categoryTotals, i - 1), categoryTotals[ExpenseCategories[i]])

\* C11 (as claimed): the six categoryTotals buckets of a summary add up to
\* its totalExpenses, and each bucket is the sum of the amounts of the
\* records of its category, 0 when there is none.
C11_BucketsSumToTotal ==
  Summarized =>
    /\ BucketSum(Summary.categoryTotals, Len(ExpenseCategories))
         = Summary.totalExpenses
    /\ \A c \in CategorySet :
         Summary.categoryTotals[c] =
           reduceSum(SelectSeq(dashboard.expenses, LAMBDA e : e.category = c))

\* C12: topCategory is the category whose total is the greatest, the
\* earliest in the order Food, Transportation, Entertainment, Shopping,
\* Bills, Other of those that share the greatest total, and null when every
\* total is 0.
C12_TopCategory ==
  Summarized =>
    LET T == Summary.categoryTotals
        C == ExpenseCategories
    IN IF \A i \in DOMAIN C : T[C[i]] = 0
       THEN Summary.topCategory = Null
       ELSE \E i \in DOMAIN C :
              /\ Summary.topCategory = Some(C[i])
              /\ \A j \in DOMAIN C : T[C[j]] <= T[C[i]]
              /\ \A j \in 1..(i - 1) : T[C[j]] < T[C[i]]

\* A summary of a list that starts with a Bills record, in which Food and
\* Bills share the greatest total: the top category is Food.
C12_Witness ==
  /\ Summarized
  /\ dashboard.expenses # <<>> /\ dashboard.expenses[1].category = "Bills"
  /\ Summary.categoryTotals["Food"] = Summary.categoryTotals["Bills"]
  /\ Summary.categoryTotals["Food"] > Summary.categoryTotals["Other"]
  /\ Summary.topCategory = Some("Food")

\* The month and the year of a calendar day.
MonthOfDay(d) == ((d - 1) \div DaysPerMonth) % MonthsPerYear
YearOfDay(d) == ((d - 1) \div DaysPerMonth) \div MonthsPerYear
\* The calendar day the reference time falls on, where the browser is.
ReferenceDay == LocalDay(ToISOString(CurrentDay, now), timezone)

\* C13 (as claimed): monthlyTotal is the sum of the amounts of exactly the
\* records whose date, the calendar day the record carries, is in the month
\* and year of the reference time.
C13_MonthlyTotal ==
  Summarized =>
    Summary.monthlyTotal =
      reduceSum(SelectSeq(dashboard.expenses, LAMBDA e :
        /\ MonthOfDay(SplitT(e.date)) = MonthOfDay(ReferenceDay)
        /\ YearOfDay(SplitT(e.date)) = YearOfDay(ReferenceDay)))

\* C14: averageExpense is totalExpenses divided by the number of records
\* when there is a record, and 0, with no top category, when there is none;
\* nothing is ever divided by zero.
C14_Average ==
  Summarized =>
    LET n == Len(dashboard.expenses)
        avg == Summary.averageExpense
    IN /\ avg.den # 0
       /\ IF n = 0
          THEN avg.num = 0 /\ Summary.topCategory = Null
          ELSE avg.num * n = Summary.totalExpenses * avg.den

\* The dashboard has rendered before its mount effect loaded the stored
\* records: the summary is that of the empty list.
C14_Witness ==
  /\ Summarized
  /\ dashboard.expenses = <<>> /\ storage.list # <<>>
  /\ Summary.averageExpense = divide(0, 1)
  /\ Summary.totalExpenses = 0

PageList == expenses[Writer].list
PageView == filteredExpenses[Writer]
\* One character in lower case.
Lower(c) == CASE c = "A" -> "a" [] c = "B" -> "b" [] c = "C" -> "c" [] OTHER -> c
\* The text s holds the text q somewhere, letter case set aside.
ContainsIgnoringCase(s, q) ==
  \E k \in 0..(Len(s) - Len(q)) :
    \A i \in 1..Len(q) : Lower(s[k + i]) = Lower(q[i])
\* The instant a is not later than the instant b.
NotLater(a, b) == a[1] < b[1] \/ (a[1] = b[1] /\ a[2] <= b[2])
\* The record satisfies every active predicate of the criteria.
Passes(e, f) ==
  /\ f.category \in {"", "All"} \/ e.category = f.category
  /\ f.searchQuery = <<>> \/ ContainsIgnoringCase(e.description, f.searchQuery)
  /\ f.startDate = 0 \/ NotLater(<<f.startDate, 0>>, e.date)
  /\ f.endDate = 0 \/ NotLater(e.date, <<f.endDate, 0>>)

\* C16: the filtered view holds exactly the records of the page's list that
\* satisfy every active predicate -- category, search text without regard
\* to case, start date and end date, both inclusive -- each of them once.
C16_FilterIsConjunction ==
  LET f == filters[Writer] IN
  /\ \A i \in DOMAIN PageList :
       Passes(PageList[i], f) <=> \E j \in DOMAIN PageView : PageView[j] = PageList[i]
  /\ \A j \in DOMAIN PageView : \E i \in DOMAIN PageList : PageList[i] = PageView[j]
  /\ Len(PageView) = Cardinality({i \in DOMAIN PageList : Passes(PageList[i], f)})

\* All four predicates are active; the view keeps one record of three, dated
\* on both bounds of the range, and drops one for its category and one for
\* its text and date.
C16_Witness ==
  LET f == filters[Writer] IN
  /\ f.category = "Bills" /\ f.searchQuery # <<>>
  /\ f.startDate = FirstDay /\ f.endDate = FirstDay
  /\ Len(PageList) = 3 /\ Len(PageView) = 1
  /\ SplitT(PageView[1].date) = FirstDay
  /\ \E i \in DOMAIN PageList : PageList[i].category = "Food"
  /\ \E i \in DOMAIN PageList :
       PageList[i].category = "Bills" /\ SplitT(PageList[i].date) # FirstDay

\* C17: the filtered view is in date order, latest first: no record's date
\* is earlier than the date of the record behind it.
C17_SortedDescending ==
  \A j \in 1..(Len(PageView) - 1) :
    NotLater(PageView[j + 1].date, PageView[j].date)

\* The page's list is in ascending date order and the view, under an end
\* date that all three records meet, shows them the latest first.
C17_Witness ==
  /\ filters[Writer].endDate = FirstDay
  /\ Len(PageList) = 3 /\ Len(PageView) = 3
  /\ \A i \in 1..2 : ~NotLater(PageList[i + 1].date, PageList[i].date)
  /\ PageView[1] = PageList[3] /\ PageView[3] = PageList[1]

\* C18: filtering the filtered view again by the same criteria gives the
\* same list in the same order, records of equal date included.
C18_FilterIsIdempotent ==
  filterExpenses(PageView, filters[Writer]) = PageView

\* The view holds two records of the same date behind a later one, under
\* an active range.
C18_Witness ==
  /\ Len(PageView) = 3
  /\ PageView[2].date = PageView[3].date
  /\ PageView[1].date # PageView[2].date
  /\ filters[Writer].startDate # 0
  /\ filterExpenses(PageView, filters[Writer]) = PageView

\* C19: a run of the filter effect leaves the page's expenses list as it
\* was, the same records in the same order, and the stored collection too.
C19_FilterKeepsInput ==
  [][((\E e \in FilterEdits : onFilterChange(Writer, e[1], e[2]))
        \/ clearFilters(Writer)) =>
       /\ expenses' = expenses
       /\ storage' = storage
       /\ filteredExpenses'[Writer] = filterExpenses(PageList, filters'[Writer])]_vars

\* The effect has run on edited criteria that drop nothing: the view is the
\* sorted copy of the page's list, which still stands in the stored order,
\* not in date order.
C19_Witness ==
  /\ filters[Writer] # DefaultFilters
  /\ Len(PageList) = 3
  /\ PageList = storage.list
  /\ PageView = sortByDateDesc(PageList) /\ PageView # PageList

\* The lines of a text: its parts between the newlines.
RECURSIVE Lines(_, _)
Lines(text, line) ==
  IF text = <<>> THEN <<line>>
  ELSE IF Head(text) = "\n" THEN <<line>> \o Lines(Tail(text), <<>>)
  ELSE Lines(Tail(text), Append(line, Head(text)))
\* A quoted text with every doubled quote read as one.
RECURSIVE Unescaped(_)
Unescaped(x) ==
  IF x = <<>> THEN <<>>
  ELSE IF Len(x) >= 2 /\ x[1] = "\"" /\ x[2] = "\""
       THEN <<"\"">> \o Unescaped(SubSeq(x, 3, Len(x)))
  ELSE <<Head(x)>> \o Unescaped(Tail(x))

DescriptionField(row) == SubSeq(row, 7, Len(row))
\* The number of double quotes among the first n characters of d.
QuotesIn(d, n) == Cardinality({j \in 1..n : d[j] = "\""})

\* C21: in every data row the description field is the description in
\* double quotes, every double quote inside it doubled and every other
\* character as it was, in place; removing the outer quotes and halving
\* the doubled ones gives the description back.
C21_DescriptionQuoted ==
  [][handleExportCSV(Writer) =>
       LET L == filteredExpenses[Writer]
           rows == Lines(csvContent'[1], <<>>)
       IN \A i \in DOMAIN L :
            LET d == L[i].description
                field == DescriptionField(rows[i + 1])
            IN /\ Len(field) = Len(d) + QuotesIn(d, Len(d)) + 2
               /\ field[1] = "\"" /\ field[Len(field)] = "\""
               /\ \A k \in DOMAIN d :
                    /\ field[1 + k + QuotesIn(d, k - 1)] = d[k]
                    /\ d[k] = "\"" => field[2 + k + QuotesIn(d, k - 1)] = "\""
               /\ Unescaped(SubSeq(field, 2, Len(field) - 1)) = d
               /\ d = <<"a", "\"", "b", "\"", ",", "c">> =>
                    field = <<"\"", "a", "\"", "\"", "b", "\"", "\"", ",",
                              "c", "\"">>]_vars

\* A record whose description holds two double quotes and a comma has just
\* been exported: its row ends with the description, both quotes doubled.
C21_Witness ==
  /\ csvContent # Null
  /\ \E i \in DOMAIN PageView :
       /\ QuotesIn(PageView[i].description, Len(PageView[i].description)) = 2
       /\ \E k \in DOMAIN PageView[i].description :
            PageView[i].description[k] = ","
       /\ LET row == Lines(csvContent[1], <<>>)[i + 1]
          IN DescriptionField(row) =
               <<"\"">> \o replaceQuotes(PageView[i].description) \o <<"\"">>

\* C22 (as claimed): for the empty list the exported text is the header
\* line followed by one newline, Date,Category,Amount,Description\n.
C22_EmptyExport ==
  [][exportCall(<<>>) =>
       csvContent' = Some(<<"Date", ",", "Category", ",", "Amount", ",",
                            "Description", "\n">>)]_vars

\* The view exported by the step is the selection of the list S under the
\* page's criteria: it holds every record of S that passes, each as often
\* as S does, and no other; it is in date order, latest first; and the
\* exported text has its rows, one line each, in its order.
ExportsSelectionOf(S) ==
  LET f == filters[Writer]
      X == filteredExpenses[Writer]
      rows == Lines(csvContent'[1], <<>>)
  IN /\ \A j \in DOMAIN X : Passes(X[j], f)
     /\ \A i \in DOMAIN S :
          Passes(S[i], f) =>
            Cardinality({j \in DOMAIN X : X[j] = S[i]})
              = Cardinality({k \in DOMAIN S : S[k] = S[i]})
     /\ Len(X) = Cardinality({i \in DOMAIN S : Passes(S[i], f)})
     /\ \A j \in 1..(Len(X) - 1) : NotLater(X[j + 1].date, X[j].date)
     /\ Len(rows) = Len(X) + 1
     /\ \A j \in DOMAIN X : rows[j + 1] = csvRow(X[j])

C24_ExportChangesNothing ==
  [][handleExportCSV(Writer) =>
       /\ storage' = storage
       /\ expenses' = expenses
       /\ filteredExpenses' = filteredExpenses
       /\ filters' = filters
       /\ editingExpense' = editingExpense /\ showForm' = showForm]_vars

\* A view of two records of different dates has just been exported: it
\* still stands latest first, in another order than the page's list, which
\* is the stored one.
C24_Witness ==
  /\ csvContent # Null
  /\ Len(PageView) = 2 /\ PageView[1].date # PageView[2].date
  /\ PageView # PageList /\ PageList = storage.list
  /\ Lines(csvContent[1], <<>>)[2] = csvRow(PageView[1])

\* C26: an export has run only on a view that holds a record: no exported
\* text is the header alone.
C26_NoEmptyExport ==
  csvContent # Null =>
    /\ Len(PageView) > 0
    /\ Len(Lines(csvContent[1], <<>>)) = Len(PageView) + 1
    /\ csvContent[1] # exportToCSV(<<>>)

\* The one record that an end date leaves of the two the page holds has
\* just been exported: the text is the header and one row.
C26_Witness ==
  /\ csvContent # Null
  /\ Len(PageList) = 2 /\ Len(PageView) = 1
  /\ filters[Writer].endDate # 0
  /\ Len(Lines(csvContent[1], <<>>)) = 2

\* What the form holds is fit to submit: a date, an amount that reads as a
\* number above zero, and a description of three characters or more
\* between its first and its last character that is no space.
Acceptable(fd) ==
  /\ fd.date # 0
  /\ fd.amount \in {"1", "2"}
  /\ \E i, j \in DOMAIN fd.description :
       /\ fd.description[i] # " " /\ fd.description[j] # " "
       /\ j - i + 1 >= 3
\* Every record of the list has an amount above zero and a description of
\* three characters or more with no space at either end.
AllValid(list) ==
  \A i \in DOMAIN list :
    /\ list[i].amount > 0
    /\ Len(list[i].description) >= 3
    /\ list[i].description[1] # " "
    /\ list[i].description[Len(list[i].description)] # " "

\* The step is a submission of the form. (The first three conjuncts follow
\* from the last; they come first to spare the evaluation of the handler.)
SubmitStep(typed, random, writeFails) ==
  /\ showForm[Writer]
  /\ last'.op \in {"add", "update"} \/ formData'[Writer] = Some(Fd(typed))
  /\ last'.op = "none" \/ last'.threw
       \/ (last'.writeFailed <=> (denied \/ writeFails))
  /\ handleSubmit(Writer, typed, random, writeFails)

\* C25: a submission reaches onSubmit, and so the storage, only when the
\* form holds a date, an amount above zero and a description of three
\* characters or more once trimmed; one that fails any of these leaves the
\* page's list and the stored collection as they were; so every record of
\* the page and of the storage has an amount above zero and a description
\* of three characters or more.
C25_OnlyValidSubmissions ==
  [][/\ \A typed \in TypedInputs \cup {Some(f) : f \in InvalidInputs},
          r \in RandomValues, wf \in BOOLEAN :
          SubmitStep(typed, r, wf) =>
            IF Acceptable(Fd(typed))
            THEN last'.op \in {"add", "update"}
            ELSE /\ last'.op = "none"
                 /\ storage' = storage
                 /\ expenses' = expenses
                 /\ filteredExpenses' = filteredExpenses
                 /\ showForm'[Writer]
     /\ AllValid(LoadedNext)
     /\ AllValid(expenses'[Writer].list)]_vars

\* The collection holds a record, and the form, open on a submission that
\* it refused for its amount of zero, still shows what was typed.
C25_Witness ==
  /\ last.op = "none"
  /\ showForm[Writer] /\ formData[Writer] # Null
  /\ formData[Writer][1].amount = "0"
  /\ storage.kind = "list" /\ Len(storage.list) >= 1
  /\ AllValid(storage.list)

C28_EditedRecordExists ==
  editingExpense[Writer] # Null => hasId(Loaded, editingExpense[Writer][1].id)

\* C29 (as claimed): the record that a submission in edit mode updates is
\* the record whose values the form fields were loaded with: the form
\* submitted as it stands, with nothing typed into it, writes onto the
\* record being edited its own date, amount, category and description.
C29_FormShowsEditedRecord ==
  [][last'.op = "update" =>
       (\A r \in RandomValues, wf \in BOOLEAN :
          UpdateStep(Null, r, wf) =>
            LET e == editingExpense[Writer][1]
                sent == Submitted(Null, r)
            IN /\ sent.id = e.id
               /\ SplitT(sent.date) = SplitT(e.date)
               /\ sent.amount = e.amount
               /\ sent.category = e.category
               /\ sent.description = e.description)]_vars

\* C30 (as claimed): whenever the form is hidden, editingExpense is null,
\* so that the Add Expense button opens the form in add mode.
C30_HiddenFormIsNotEditing ==
  ~showForm[Writer] => editingExpense[Writer] = Null

====
